---------------------------- MODULE Spec2Model ----------------------------
(***************************************************************************)
(* A model of the JASPAR profile inference tool.                           *)
(*                                                                         *)
(*   src/files/get_files.py   domain scan pipeline: hmmScan,               *)
(*                            _readDomainsTab, _getNonOverlappingDomains, *)
(*                            hmmAlign, _get_Pfam_alignments               *)
(*   src/profile_inferrer.py  options, Rost curve and the per-query        *)
(*                            inference loop                               *)
(*                                                                         *)
(* Seven specifications share the module, one per component:               *)
(*   SpecResolver  _getNonOverlappingDomains on every bounded hit list     *)
(*   SpecRost      get_Rost_ID_threshold on sampled alignment lengths      *)
(*   SpecPfam      _get_Pfam_alignments over the sequences of a taxon      *)
(*   SpecScore     the scoring of one homolog hit against its domains      *)
(*   SpecInfer     the scoring / ranking / writing loop over the queries   *)
(*   SpecOptions   parse_options and the start-up of the inference script  *)
(*   SpecScratch   two runs at once in one directory, by their scratch     *)
(*                 files                                                   *)
(* The variables of the components a specification does not run keep      *)
(* their idle values.                                                      *)
(***************************************************************************)
EXTENDS Integers, Sequences, FiniteSets, TLC

VARIABLES
    \* ---- SpecResolver ----
    r_pc,        \* "idle" | "call" | "return"
    r_domains,   \* the argument of _getNonOverlappingDomains
    r_nov,       \* its return value
    \* ---- SpecRost ----
    t_pc,        \* "idle" | "call" | "return"
    t_n,         \* the strictness n
    t_L,         \* <<L1, L2>>: two alignment lengths
    t_thr,       \* <<get_Rost_ID_threshold(L1, n), get_Rost_ID_threshold(L2, n)>>
    \* ---- SpecPfam: _get_Pfam_alignments ----
    p_pc,          \* "idle" | "start" | "loop" | "done" | "error"
    p_file,        \* the taxon's Pfam JSON file: Absent, Earlier or the dict written
    p_pfams,       \* pfams, the dict built in memory
    p_todo,        \* the uniaccs the outer loop has still to visit
    p_cur,         \* the uniacc of the current iteration
    p_dbds,        \* the domains hmmScan has still to yield for p_cur
    p_seq_file,    \* the content of the scratch file ".seq.fasta", or Absent
    p_err,         \* the exception that ended the run, "" if none
    p_scanned,     \* history: the domains hmmScan delivered for each uniacc
    p_out,         \* history: what the last hmmscan run left at ".out.txt"
    p_failed,      \* history: hmmalign has exited non-zero
    \* ---- SpecScore: one iteration of the loop over the hits of a query ----
    s_pc,          \* "idle" | "call" | "return"
    s_query,       \* the query
    s_hit,         \* the homolog hit
    s_store,       \* domains, the domain store
    s_alis,        \* what globalds returns for each domain of the target
    s_new,         \* the records the iteration appended to inferences
    \* ---- SpecInfer: the loop over the queries ----
    i_pc,          \* "idle" | "start" | "score" | "write" | "done" | "error"
                   \* | "raised" (the ValueError of line 223)
    i_latest,      \* options.latest
    i_single,      \* options.single
    i_store,       \* domains, the domain store
    i_homologs,    \* homologs: query -> list of hits
    i_queries,     \* the queries the outer loop has still to visit
    i_query,       \* the query of the current iteration
    i_hits,        \* the hits of i_query still to score
    i_inferences,  \* inferences
    i_ranked,      \* the sorted inferences still to visit in the write loop
    i_inferred_profiles,   \* inferred_profiles
    i_csv,         \* the scratch csv file: Absent or File(rows)
    i_output,      \* the output destination: Absent or File(rows)
    i_pass,        \* history: for each row of i_csv, the query whose
                   \* iteration wrote it
    \* ---- SpecOptions: parse_options and start-up ----
    o_pc,          \* "idle" | "start" | "parsed" | "usage_error" | "running"
    o_argv,        \* the command line: a list of <<flag, value>>
    o_options,     \* options, as returned by parse_options
    o_error,       \* the message of parser.error, "" if none
    o_dummy_dir,   \* the scratch directory has been created
    \* ---- SpecScratch: two runs in one working directory ----
    c_prog,        \* run -> "get_files" | "profile_inferrer"
    c_pid,         \* run -> os.getpid()
    c_pc,          \* run -> position
    c_fs,          \* file name -> Absent or File(<<writer, content>>)
    c_todo,        \* run -> the uniaccs still to visit
    c_cur,         \* run -> the uniacc of the current iteration
    c_given,       \* history: run -> the files its tools have read
    c_clobbered    \* history: a run has overwritten or removed a file that
                   \* another run had written

r_vars == <<r_pc, r_domains, r_nov>>
t_vars == <<t_pc, t_n, t_L, t_thr>>

p_vars == <<p_pc, p_file, p_pfams, p_todo, p_cur, p_dbds, p_seq_file, p_err,
            p_scanned, p_out, p_failed>>

s_vars == <<s_pc, s_query, s_hit, s_store, s_alis, s_new>>
i_vars == <<i_pc, i_latest, i_single, i_store, i_homologs, i_queries, i_query,
            i_hits, i_inferences, i_ranked, i_inferred_profiles, i_csv,
            i_output, i_pass>>

o_vars == <<o_pc, o_argv, o_options, o_error, o_dummy_dir>>
c_vars == <<c_pc, c_prog, c_pid, c_fs, c_todo, c_cur, c_given, c_clobbered>>

vars == <<r_vars, t_vars, p_vars, s_vars, i_vars, o_vars, c_vars>>

-----------------------------------------------------------------------------
(* Generic helpers                                                         *)

Range(s) == {s[i] : i \in 1..Len(s)}

\* All sequences over S of length at most n.
SeqsUpTo(S, n) == UNION {[1..k -> S] : k \in 0..n}

\* Python's sorted(): a stable sort.  before[<<j, i>>] is "key(s[j]) < key(s[i])".
\* The element at index i lands behind every element that sorts strictly
\* before it and behind every earlier element of equal key.
SortRank(s, i, before) ==
    1 + Cardinality({j \in 1..Len(s) :
            \/ before[<<j, i>>]
            \/ (~before[<<i, j>>] /\ j < i)})

Sorted(s, before) ==
    [p \in 1..Len(s) |-> s[CHOOSE i \in 1..Len(s) : SortRank(s, i, before) = p]]

\* The index pairs of a list, over which a sort key is compared.
IndexPairs(s) == (1..Len(s)) \X (1..Len(s))

-----------------------------------------------------------------------------
(* Domain hits: the tuples (mod.id, query_start, query_end, evalue_cond)   *)
(* that _readDomainsTab appends.  Python's x[1], x[2], x[-1] are the       *)
(* fields 2, 3 and 4 here.                                                 *)

MaxHits  == 3    \* hits in one input list
MaxCoord == 2    \* coordinates range over 0..MaxCoord
MaxE     == 1    \* e-values range over 0..MaxE (only their order is read)

DomId(d)    == d[1]
DomStart(d) == d[2]
DomEnd(d)   == d[3]
DomE(d)     == d[4]

\* The (start, end, e-value) triples of a hit; start <= end as the scan tool
\* reports them.
HitShapes ==
    {h \in (0..MaxCoord) \X (0..MaxCoord) \X (0..MaxE) : h[1] <= h[2]}

\* Input lists: the hit at position i carries the id i, so that the hits of
\* a list are told apart.
WithIds(s) == [i \in 1..Len(s) |-> <<i, s[i][1], s[i][2], s[i][3]>>]

\* get_files.py:516  domain[1] < nov_domain[2] and domain[2] > nov_domain[1]
DomainsOverlap(domain, nov_domain) ==
    DomStart(domain) < DomEnd(nov_domain) /\ DomEnd(domain) > DomStart(nov_domain)

\* Faulty variant: the hits are visited in input order, not by e-value.
SortedByEvalue_Unsorted(domains) == domains

\* get_files.py:501  sorted(domains, key=lambda x: x[-1])
SortedByEvalue(domains) ==
    Sorted(domains, [p \in IndexPairs(domains) |->
                        DomE(domains[p[1]]) < DomE(domains[p[2]])])

\* Faulty variant: an accepted hit is put in front (insert(0, domain)).
AcceptDomain_Prepend(nov_domains, domain) ==
    IF \E i \in 1..Len(nov_domains) : DomainsOverlap(domain, nov_domains[i])
    THEN nov_domains
    ELSE <<domain>> \o nov_domains

\* Faulty variant: a hit is compared with the last accepted hit only.
AcceptDomain_LastOnly(nov_domains, domain) ==
    IF nov_domains # <<>> /\ DomainsOverlap(domain, nov_domains[Len(nov_domains)])
    THEN nov_domains
    ELSE Append(nov_domains, domain)

\* get_files.py:503-522  one iteration of the loop over the sorted hits
AcceptDomain(nov_domains, domain) ==
    IF \E i \in 1..Len(nov_domains) : DomainsOverlap(domain, nov_domains[i])
    THEN nov_domains
    ELSE Append(nov_domains, domain)

RECURSIVE NovLoop(_, _)
NovLoop(todo, nov_domains) ==
    IF todo = <<>> THEN nov_domains
    ELSE NovLoop(Tail(todo), AcceptDomain(nov_domains, Head(todo)))

\* get_files.py:495-524
_getNonOverlappingDomains(domains) == NovLoop(SortedByEvalue(domains), <<>>)

-----------------------------------------------------------------------------
(* Rost curve, profile_inferrer.py:66-93.  Python computes in double       *)
(* precision; the model computes the same expression in fixed point with   *)
(* FP units to 1, every intermediate value below 2^31.  For 1 <= L <= 2000 *)
(* the relative error of a threshold is below 0.5 percent, and every       *)
(* comparison of two thresholds at the sampled lengths has the outcome it  *)
(* has in double precision.                                                *)

FP == 10000

\* sum_{k >= 0} (-x)^k / k!, for 0 <= x <= 1.2 (x = X / FP)
RECURSIVE ExpNegSeries(_, _, _, _)
ExpNegSeries(X, k, term, acc) ==
    IF term = 0 THEN acc
    ELSE LET next == (term * X) \div (FP * k)
         IN  ExpNegSeries(X, k + 1, next,
                          IF k % 2 = 1 THEN acc - next ELSE acc + next)

ExpNegSmall(X) == ExpNegSeries(X, 1, FP, FP)

\* e^(-x) for 0 <= x <= 4.8, as (e^(-x/4))^4
ExpNeg(X) ==
    LET q  == ExpNegSmall(X \div 4)
        q2 == (q * q) \div FP
    IN  (q2 * q2) \div FP

\* z + z^3/3 + z^5/5 + ... = atanh(z), for 0 <= z <= 1/3
RECURSIVE AtanhSeries(_, _, _, _)
AtanhSeries(Z, k, pw, acc) ==
    IF pw = 0 THEN acc
    ELSE AtanhSeries(Z, k + 2, (((pw * Z) \div FP) * Z) \div FP, acc + pw \div k)

Atanh(Z) == AtanhSeries(Z, 1, Z, 0)

RECURSIVE FloorLog2(_)
FloorLog2(L) == IF L < 2 THEN 0 ELSE 1 + FloorLog2(L \div 2)

\* ln(L) = k ln 2 + ln(L / 2^k), ln(m) = 2 atanh((m - 1) / (m + 1))
Ln(L) ==
    LET k == FloorLog2(L)
        M == (L * FP) \div (2 ^ k)
    IN  k * (2 * Atanh(FP \div 3)) + 2 * Atanh(((M - FP) * FP) \div (M + FP))

\* profile_inferrer.py:93
\*   n + (480*pow(L, float('-0.32')*(1+pow(e, float(-L)/1000))))
\* as 480 * e^(-(0.32 * (1 + e^(-L/1000))) * ln L), in units of 1/FP.
get_Rost_ID_threshold(L, n) ==
    LET inner    == ExpNeg((L * FP) \div 1000)
        exponent == (32 * (FP + inner)) \div 100
    IN  n * FP + 480 * ExpNeg((exponent * Ln(L)) \div FP)

\* profile_inferrer.py:66-78
is_alignment_over_Rost_sequence_identity_curve(identities, align_length, parameter) ==
    identities * FP >= get_Rost_ID_threshold(align_length, parameter)

-----------------------------------------------------------------------------
(* SpecRost: the threshold at two lengths for one strictness.             *)

MaxN  == 2      \* strictness n ranges over 0..MaxN
LStep == 100    \* the sampled lengths are 1 and the multiples of LStep ...
MaxK  == 10     \* ... up to LStep * MaxK

RostLengths == {1} \cup {LStep * k : k \in 1..MaxK}

T_Idle == t_pc = "idle" /\ t_n = 0 /\ t_L = <<1, 1>> /\ t_thr = <<0, 0>>

T_Init ==
    /\ t_pc = "call"
    /\ t_n \in 0..MaxN
    /\ t_L \in RostLengths \X RostLengths
    /\ t_thr = <<0, 0>>

T_Threshold ==
    /\ t_pc = "call"
    /\ t_thr' = <<get_Rost_ID_threshold(t_L[1], t_n),
                  get_Rost_ID_threshold(t_L[2], t_n)>>
    /\ t_pc' = "return"
    /\ UNCHANGED <<t_n, t_L, r_vars, p_vars, s_vars, i_vars, o_vars, c_vars>>

-----------------------------------------------------------------------------
(* Domain scan pipeline, get_files.py:365-547.                             *)
(* E-values of the scan table are in units of 1e-6.                        *)

cutoff_mod == 10       \* get_files.py:465  cutoff_mod = 1e-5
cutoff_dom == 10000    \* get_files.py:471  cutoff_dom = 0.01

MaxScanHits == 2       \* rows in one hmmscan table

\* Files: Absent is a file that does not exist, Earlier a Pfam JSON file
\* left by an earlier run, File(c) a file of this run with the content c.
\* NotRun stands for the output of a tool that has not run yet.
Absent  == <<"absent">>
NotRun  == <<"not run">>
Earlier == <<"earlier">>
File(content) == <<"file", content>>
Content(file) == file[2]

\* The taxon's UniProt JSON file: uniacc -> sequence, in file order.
Uniaccs == <<"P1", "P2">>
UniprotSeq(uniacc) == IF uniacc = "P1" THEN <<"a", "b">> ELSE <<"b", "a">>

PfamIds == {"PF00010", "PF00046"}

\* (model e-value, conditional domain e-value) of a table row: both pass,
\* the domain e-value at its cutoff, the model fails, the domain fails.
RowEvalues == {<<cutoff_mod, 1>>, <<cutoff_mod, cutoff_dom>>,
               <<cutoff_mod + 1, 1>>, <<cutoff_mod, cutoff_dom + 1>>}

\* The rows hmmscan can report on a sequence:
\* <<mod.id, dom.query_start, dom.query_end, mod.evalue, dom.evalue_cond>>,
\* query_start 0-based, query_end exclusive.
ScanRows(seq) ==
    {<<id, st, en, ev[1], ev[2]>> :
        id \in PfamIds, st \in 0..Len(seq), en \in 0..Len(seq), ev \in RowEvalues}

ScanTables(seq) ==
    {File(t) : t \in UNION {[1..k -> {row \in ScanRows(seq) : row[2] < row[3]}] :
                                k \in 0..MaxScanHits}}

\* get_files.py:457-493.  SearchIO.parse opens file_name when the loop first
\* asks it for a result, and a missing file makes that open fail: raised is
\* then TRUE and no list is returned.
_readDomainsTab(out_file) ==
    IF out_file = Absent
    THEN [raised |-> TRUE, domains |-> <<>>]
    ELSE LET kept == SelectSeq(Content(out_file),
                        LAMBDA row : ~(row[4] > cutoff_mod) /\ ~(row[5] > cutoff_dom))
         IN  [raised |-> FALSE,
              domains |-> [i \in 1..Len(kept) |->
                              <<kept[i][1], kept[i][2], kept[i][3], kept[i][5]>>]]

\* get_files.py:453  sorted(domains, key=lambda x: x[1])
SortedByStart(domains) ==
    Sorted(domains, [p \in IndexPairs(domains) |->
                        DomStart(domains[p[1]]) < DomStart(domains[p[2]])])

\* get_files.py:432-455.  out_file is what the hmmscan run left at ".out.txt".
\* The value is the sequence of tuples the generator yields.
hmmScan(out_file, non_overlapping_domains) ==
    LET read == _readDomainsTab(out_file)
        doms == IF non_overlapping_domains
                THEN _getNonOverlappingDomains(read.domains)
                ELSE read.domains
    IN  [raised |-> read.raised,
         yields |-> IF read.raised THEN <<>> ELSE SortedByStart(doms)]

\* The text hmmalign prints for a sequence in PSIBLAST format: one line,
\* the sequence name, blanks, the aligned residues; then an empty line.
\* A line is the sequence of its blank-separated fields.
HmmalignStdout(name, sub_seq) == << <<name, sub_seq>>, <<>> >>

\* get_files.py:534-547.  re.search("\s+(\S+)$", chunk) finds the last field
\* of a line that has blanks before it.
RECURSIVE _readPSIBLASToutformat(_)
_readPSIBLASToutformat(psiblast_alignment) ==
    IF psiblast_alignment = <<>> THEN <<>>
    ELSE LET chunk == Head(psiblast_alignment)
         IN  (IF Len(chunk) >= 2 THEN chunk[Len(chunk)] ELSE <<>>)
                 \o _readPSIBLASToutformat(Tail(psiblast_alignment))

\* Faulty variant: the exit status is not checked (subprocess.run without check).
hmmAlign_Unchecked(exit_status, stdout) ==
    [raised |-> FALSE, alignment |-> _readPSIBLASToutformat(stdout)]

\* get_files.py:526-532.  subprocess.check_output raises CalledProcessError
\* when the command exits non-zero.
hmmAlign(exit_status, stdout) ==
    IF exit_status # 0
    THEN [raised |-> TRUE, alignment |-> <<>>]
    ELSE [raised |-> FALSE, alignment |-> _readPSIBLASToutformat(stdout)]

\* get_files.py:423-430: the file is removed if it exists, then written.
_makeSeqFile(id, seq) == File(<<id, seq>>)

\* Python's seq[start:end]
Slice(seq, start, end) == SubSeq(seq, start + 1, end)

P_Idle ==
    /\ p_pc = "idle" /\ p_file = Absent /\ p_pfams = <<>> /\ p_todo = <<>>
    /\ p_cur = "" /\ p_dbds = <<>> /\ p_seq_file = Absent /\ p_err = ""
    /\ p_scanned = <<>> /\ p_out = NotRun /\ p_failed = FALSE

\* The state at the call of _get_Pfam_alignments(taxon).
P_Init ==
    /\ p_pc = "start"
    /\ p_file \in {Absent, Earlier}
    /\ p_pfams = <<>> /\ p_todo = <<>> /\ p_cur = "" /\ p_dbds = <<>>
    /\ p_seq_file = Absent /\ p_err = "" /\ p_scanned = <<>> /\ p_out = NotRun
    /\ p_failed = FALSE

\* get_files.py:369: the Pfam JSON file exists already, nothing is done.
P_Skip ==
    /\ p_pc = "start" /\ p_file # Absent
    /\ p_pc' = "done"
    /\ UNCHANGED <<p_file, p_pfams, p_todo, p_cur, p_dbds, p_seq_file, p_err,
                   p_scanned, p_out, p_failed, r_vars, t_vars, s_vars, i_vars, o_vars, c_vars>>

\* get_files.py:371-382
P_Begin ==
    /\ p_pc = "start" /\ p_file = Absent
    /\ p_pc' = "loop"
    /\ p_todo' = Uniaccs
    /\ UNCHANGED <<p_file, p_pfams, p_cur, p_dbds, p_seq_file, p_err,
                   p_scanned, p_out, p_failed, r_vars, t_vars, s_vars, i_vars, o_vars, c_vars>>

\* get_files.py:385-396: the next uniacc; its sequence is written to the
\* scratch file and scanned.  hmmscan leaves a table or no file at all.
P_NextSeq ==
    /\ p_pc = "loop" /\ p_dbds = <<>> /\ p_todo # <<>>
    /\ LET uniacc == Head(p_todo)
           seq    == UniprotSeq(uniacc)
       IN  /\ p_cur' = uniacc
           /\ p_todo' = Tail(p_todo)
           /\ p_pfams' = (uniacc :> <<>>) @@ p_pfams
           /\ p_seq_file' = _makeSeqFile(uniacc, seq)
           /\ \E out_file \in {Absent} \cup ScanTables(seq) :
                LET scan == hmmScan(out_file, TRUE)
                IN  /\ p_out' = out_file
                    /\ IF scan.raised
                       THEN /\ p_pc' = "error" /\ p_err' = "IOError"
                            /\ p_dbds' = <<>>
                            /\ UNCHANGED p_scanned
                       ELSE /\ p_pc' = "loop" /\ p_err' = ""
                            /\ p_dbds' = scan.yields
                            /\ p_scanned' = (uniacc :> scan.yields) @@ p_scanned
    /\ UNCHANGED <<p_file, p_failed, r_vars, t_vars, s_vars, i_vars, o_vars, c_vars>>

\* get_files.py:396-408: one yielded domain; its sub-sequence is written
\* to the scratch file and aligned; hmmalign exits with 0 or with 1.
P_Align ==
    /\ p_pc = "loop" /\ p_dbds # <<>>
    /\ LET dom     == Head(p_dbds)
           pfam_ac == dom[1]
           start   == dom[2]
           end     == dom[3]
           evalue  == dom[4]
           sub_seq == Slice(UniprotSeq(p_cur), start, end)
       IN  /\ p_seq_file' = _makeSeqFile(p_cur, sub_seq)
           /\ \E exit_status \in {0, 1} :
                LET res == hmmAlign(exit_status,
                              IF exit_status = 0
                              THEN HmmalignStdout(p_cur, sub_seq) ELSE <<>>)
                IN  /\ p_failed' = (p_failed \/ exit_status # 0)
                    /\ IF res.raised
                       THEN /\ p_pc' = "error" /\ p_err' = "CalledProcessError"
                            /\ UNCHANGED <<p_pfams, p_dbds>>
                       ELSE /\ p_pfams' = [p_pfams EXCEPT ![p_cur] =
                                   Append(@, <<pfam_ac, res.alignment, start + 1,
                                               end, evalue>>)]
                            /\ p_dbds' = Tail(p_dbds)
                            /\ UNCHANGED <<p_pc, p_err>>
    /\ UNCHANGED <<p_file, p_todo, p_cur, p_scanned, p_out,
                   r_vars, t_vars, s_vars, i_vars, o_vars, c_vars>>

\* get_files.py:410-421: the dict is written and the scratch file removed.
P_Write ==
    /\ p_pc = "loop" /\ p_dbds = <<>> /\ p_todo = <<>>
    /\ p_file' = File(p_pfams)
    /\ p_seq_file' = Absent
    /\ p_pc' = "done"
    /\ UNCHANGED <<p_pfams, p_todo, p_cur, p_dbds, p_err, p_scanned, p_out, p_failed,
                   r_vars, t_vars, s_vars, i_vars, o_vars, c_vars>>

-----------------------------------------------------------------------------
(* Profile inference, profile_inferrer.py:95-110 and 208-254.              *)
(*                                                                         *)
(* Accessions, gene names and matrix ids are sequences of characters, so   *)
(* that slicing, substring tests and string comparison are computed.       *)
(* The main flow names some objects that it never binds; the model reads   *)
(* them as the objects the flow has built for that purpose:                *)
(*   uniacc            the target of the hit (line 211)                    *)
(*   jaspar            the profile map: accession -> (matrix, gene) pairs  *)
(*   sequences         the query sequences collected at lines 198-205      *)
(*   csv_file          the scratch file the rows are written to            *)
(*   inferred_profiles a set, created empty with the other containers at   *)
(*                     lines 121-125 (no statement of the loop resets it)  *)

\* The characters in use, in code point order.
Chars == <<".", "0", "1", "2", "3", "4", ":", "A", "E", "F", "G", "L", "M",
           "P", "Q", "S", "T", "a", "b">>
CharCode(c) == CHOOSE i \in 1..Len(Chars) : Chars[i] = c

\* Python's a < b on strings
RECURSIVE StrLess(_, _)
StrLess(a, b) ==
    IF b = <<>> THEN FALSE
    ELSE IF a = <<>> THEN TRUE
    ELSE IF Head(a) = Head(b) THEN StrLess(Tail(a), Tail(b))
    ELSE CharCode(Head(a)) < CharCode(Head(b))

\* Python's sub in s
Contains(sub, s) ==
    \E i \in 1..(Len(s) - Len(sub) + 1) : SubSeq(s, i, i + Len(sub) - 1) = sub

\* Python's s[:n]
Prefix(s, n) == SubSeq(s, 1, IF Len(s) < n THEN Len(s) ELSE n)

\* Floats that are ratios of small integers: <<numerator, denominator>> in
\* lowest terms, so that equal ratios are equal values.
RECURSIVE Gcd(_, _)
Gcd(a, b) == IF b = 0 THEN a ELSE Gcd(b, a % b)
Ratio(num, den) == LET g == Gcd(num, den) IN <<num \div g, den \div g>>
RatioLess(x, y) == x[1] * y[2] < y[1] * x[2]
RatioGeq(x, y)  == ~RatioLess(x, y)

RECURSIVE MaxRatio(_)
MaxRatio(s) ==
    IF Len(s) = 1 THEN s[1]
    ELSE LET m == MaxRatio(Tail(s))
         IN  IF RatioLess(s[1], m) THEN m ELSE s[1]

\* ---- reference data ----
Q1 == <<"Q", "1">>
Q2 == <<"Q", "1", ":", ":", "Q", "2">>
InputQueries == {Q1, Q2}
QuerySeq(query) == <<"a", "b">>

MA0001_1 == <<"M", "A", "0", "0", "0", "1", ".", "1">>
MA0001_2 == <<"M", "A", "0", "0", "0", "1", ".", "2">>
MA0002_1 == <<"M", "A", "0", "0", "0", "2", ".", "1">>
MA0003_1 == <<"M", "A", "0", "0", "0", "3", ".", "1">>
MA0004_1 == <<"M", "A", "0", "0", "0", "4", ".", "1">>
AGL3 == <<"A", "G", "L", "3">>
SEP3 == <<"S", "E", "P", "3">>
ETS1 == <<"E", "T", "S", "1">>
FLI1 == <<"F", "L", "I", "1">>

Targets == {"T1", "T2", "T3", "T4"}

\* The profile map: accession -> list of [matrix, genename].
Jaspar(uniacc) ==
    CASE uniacc = "T1" -> << <<MA0001_1, AGL3>> >>
      [] uniacc = "T2" -> << <<MA0001_2, SEP3>>, <<MA0002_1, AGL3>> >>
      [] uniacc = "T3" -> << <<MA0003_1, ETS1>> >>
      [] OTHER         -> << <<MA0004_1, FLI1>> >>

\* The thresholds a domain store holds.
Thresholds == {Ratio(0, 1), Ratio(1, 2), Ratio(1, 1)}

\* A domain store (domains.json): accession -> [domains, threshold].  T1 has
\* one domain, T2 two, T3 an empty domain list, T4 is not in the store.
DomainStore(thr) ==
    [uniacc \in {"T1", "T2", "T3"} |->
        << CASE uniacc = "T1" -> << <<"a", "b">> >>
             [] uniacc = "T2" -> << <<"a">>, <<"b", "b">> >>
             [] OTHER         -> << >>,
           thr >>]

DomainStores == {DomainStore(thr) : thr \in Thresholds}

\* The stores the loop over the queries is run with.
InferStores == {DomainStore(Ratio(1, 2)), DomainStore(Ratio(1, 1))}

\* ---- pairwise2.align.globalds ----
MaxAlignments == 2    \* alignments one call returns

Gap == "-"

\* Every global alignment of A with B: pairs of gapped strings of equal
\* length, no column holding two gaps.
RECURSIVE GlobalAlignments(_, _)
GlobalAlignments(A, B) ==
    IF A = <<>> /\ B = <<>> THEN {<< <<>>, <<>> >>}
    ELSE (IF A # <<>> /\ B # <<>>
          THEN {<< <<Head(A)>> \o al[1], <<Head(B)>> \o al[2] >> :
                    al \in GlobalAlignments(Tail(A), Tail(B))}
          ELSE {})
         \cup
         (IF A # <<>>
          THEN {<< <<Head(A)>> \o al[1], <<Gap>> \o al[2] >> :
                    al \in GlobalAlignments(Tail(A), B)}
          ELSE {})
         \cup
         (IF B # <<>>
          THEN {<< <<Gap>> \o al[1], <<Head(B)>> \o al[2] >> :
                    al \in GlobalAlignments(A, Tail(B))}
          ELSE {})

RECURSIVE SetToSeq(_)
SetToSeq(S) ==
    IF S = {} THEN <<>>
    ELSE LET x == CHOOSE y \in S : TRUE IN <<x>> \o SetToSeq(S \ {x})

\* What one call of globalds(sequence, domain, ...) can return: a list of
\* one to MaxAlignments different global alignments of the two strings.
AlignmentLists(sequence, domain) ==
    {SetToSeq(S) : S \in {T \in SUBSET GlobalAlignments(sequence, domain) :
                             Cardinality(T) \in 1..MaxAlignments}}

\* The returns of the calls of one hit: one list per domain, in order.
RECURSIVE AlignmentChoices(_, _)
AlignmentChoices(sequence, doms) ==
    IF doms = <<>> THEN {<<>>}
    ELSE {<<first>> \o rest :
             first \in AlignmentLists(sequence, Head(doms)),
             rest \in AlignmentChoices(sequence, Tail(doms))}

\* profile_inferrer.py:95-110; None is modelled as -1.
get_alignment_identities(A, B) ==
    IF Len(A) = Len(B)
    THEN Cardinality({i \in 1..Len(A) : A[i] = B[i]})
    ELSE -1

\* profile_inferrer.py:224-225: the inner loop over the alignments of one
\* domain.
RECURSIVE AppendIdentities(_, _, _)
AppendIdentities(identities, alignments, domain) ==
    IF alignments = <<>> THEN identities
    ELSE AppendIdentities(
            Append(identities,
                   Ratio(get_alignment_identities(Head(alignments)[1],
                                                  Head(alignments)[2]),
                         Len(domain))),
            Tail(alignments), domain)

\* profile_inferrer.py:215-225: identities = [0], then the loop over the
\* domains; alis[k] is what globalds returned for the k-th domain.
RECURSIVE DomainLoop(_, _, _)
DomainLoop(identities, doms, alis) ==
    IF doms = <<>> THEN identities
    ELSE DomainLoop(AppendIdentities(identities, Head(alis), Head(doms)),
                    Tail(doms), Tail(alis))

Identities(doms, alis) == DomainLoop(<<Ratio(0, 1)>>, doms, alis)

\* A homolog hit, profile_inferrer.py:195:
\* [e_value, target, query_start, query_end, target_start, target_end]
HomologHit(query, target) == <<1, target, 1, Len(QuerySeq(query)), 1, 2>>

\* An inference, profile_inferrer.py:231:
\* [query, genename, matrix, e_value, "qs-qe", "ts-te", max(identities)]
InfQuery(inf)    == inf[1]
InfGene(inf)     == inf[2]
InfMatrix(inf)   == inf[3]
InfIdentity(inf) == inf[7]

\* Faulty variant: > in place of >=.
PassesThreshold_Strict(identities, threshold) ==
    RatioLess(threshold, MaxRatio(identities))

\* profile_inferrer.py:227  max(identities) >= float(domains[uniacc][1])
PassesThreshold(identities, threshold) == RatioGeq(MaxRatio(identities), threshold)

\* profile_inferrer.py:227-231: the records appended for one hit, given the
\* list identities.
InferMatrices(query, hit, store, identities) ==
    LET uniacc == hit[2]
    IN  IF PassesThreshold(identities, store[uniacc][2])
        THEN [k \in 1..Len(Jaspar(uniacc)) |->
                 <<query, Jaspar(uniacc)[k][2], Jaspar(uniacc)[k][1], hit[1],
                   <<hit[3], hit[4]>>, <<hit[5], hit[6]>>, MaxRatio(identities)>>]
        ELSE <<>>

\* profile_inferrer.py:216  sequences[query][query_start - 1:query_end]
HitSequence(query, hit) == Slice(QuerySeq(query), hit[3] - 1, hit[4])

\* profile_inferrer.py:211-231: one iteration of the loop over the hits of
\* a query: the records it appends to inferences.
ScoreHit(query, hit, store, alis) ==
    IF hit[2] \notin DOMAIN store THEN <<>>
    ELSE InferMatrices(query, hit, store,
                       Identities(store[hit[2]][1], alis))

\* The calls of globalds one hit makes: none when the target is not in the
\* store (line 213), else one per domain of the target.
HitAlignments(query, hit, store) ==
    IF hit[2] \notin DOMAIN store THEN {<<>>}
    ELSE AlignmentChoices(HitSequence(query, hit), store[hit[2]][1])

I_Idle ==
    /\ i_pc = "idle" /\ i_latest = FALSE /\ i_single = FALSE /\ i_store = <<>>
    /\ i_homologs = <<>> /\ i_queries = <<>> /\ i_query = <<>> /\ i_hits = <<>>
    /\ i_inferences = <<>> /\ i_ranked = <<>> /\ i_inferred_profiles = {}
    /\ i_csv = Absent /\ i_output = Absent /\ i_pass = <<>>

\* ---- SpecInfer ----

MaxHomologs == 3    \* retained hits of all queries together

\* homologs after lines 190-195: the queries that have a retained hit, each
\* with its hits in file order.
HomologDicts ==
    UNION {{h \in [D -> {l \in SeqsUpTo(Targets, MaxHomologs) : l # <<>>}] :
               \A q \in D :
                  Len(h[q]) + (IF D = {q} THEN 0
                               ELSE Len(h[CHOOSE o \in D : o # q])) <= MaxHomologs} :
           D \in SUBSET InputQueries}

\* profile_inferrer.py:209  sorted(homologs)
SortedQueries(homologs) ==
    LET keys == SetToSeq(DOMAIN homologs)
    IN  Sorted(keys, [p \in IndexPairs(keys) |-> StrLess(keys[p[1]], keys[p[2]])])

\* What the scoring of one hit can append, over all returns of globalds.
ScoreOutcomes ==
    [query \in InputQueries, target \in Targets, store \in DomainStores |->
        {ScoreHit(query, HomologHit(query, target), store, alis) :
            alis \in HitAlignments(query, HomologHit(query, target), store)}]

\* profile_inferrer.py:233  key=lambda x: (x[-1], x[1]), reverse=True
RankedBefore(a, b) ==
    \/ RatioLess(InfIdentity(b), InfIdentity(a))
    \/ (InfIdentity(a) = InfIdentity(b) /\ StrLess(InfGene(b), InfGene(a)))

\* profile_inferrer.py:233  sorted(inferences, key=..., reverse=True)
RankInferences(inferences) ==
    Sorted(inferences, [p \in IndexPairs(inferences) |->
                          RankedBefore(inferences[p[1]], inferences[p[2]])])

\* profile_inferrer.py:236, 242  inference[1][:6]
ProfileKey(inference) == Prefix(inference[2], 6)

\* profile_inferrer.py:235-236
LatestSkips(latest, inference, inferred_profiles) ==
    latest /\ ProfileKey(inference) \in inferred_profiles

\* Faulty variant: the token is looked for in the gene name, inference[1].
SingleSkips_GeneName(single, inference) ==
    single /\ Contains(<<":", ":">>, inference[2])

\* profile_inferrer.py:238-239
SingleSkips(single, inference) ==
    single /\ Contains(<<":", ":">>, inference[1])

\* profile_inferrer.py:198-205: header still holds the last header of the
\* loop over the sequences when the rows are written.
LastHeader == Q2

\* profile_inferrer.py:241: the row written for an inference.
CsvRow(inference) == <<LastHeader, inference>>

Rows(file) == IF file = Absent THEN <<>> ELSE Content(file)

I_Init ==
    /\ i_pc = "start"
    /\ i_latest \in BOOLEAN
    /\ i_single \in BOOLEAN
    /\ i_store \in InferStores
    /\ i_homologs \in HomologDicts
    /\ i_queries = SortedQueries(i_homologs)
    /\ i_query = <<>> /\ i_hits = <<>> /\ i_inferences = <<>> /\ i_ranked = <<>>
    /\ i_inferred_profiles = {}
    /\ i_csv = Absent /\ i_output = Absent /\ i_pass = <<>>

\* The outer loop is at its head: before the first query, or at the end of
\* the write loop of a query.
I_AtLoopHead == i_pc = "start" \/ (i_pc = "write" /\ i_ranked = <<>>)

\* profile_inferrer.py:209-211: the next query.
I_NextQuery ==
    /\ I_AtLoopHead /\ i_queries # <<>>
    /\ i_query' = Head(i_queries)
    /\ i_queries' = Tail(i_queries)
    /\ i_hits' = [k \in 1..Len(i_homologs[Head(i_queries)]) |->
                      HomologHit(Head(i_queries), i_homologs[Head(i_queries)][k])]
    /\ i_pc' = "score"
    /\ UNCHANGED <<i_latest, i_single, i_store, i_homologs, i_inferences,
                   i_ranked, i_inferred_profiles, i_csv, i_output, i_pass,
                   r_vars, t_vars, p_vars, s_vars, o_vars, c_vars>>

\* profile_inferrer.py:211-231: one hit of the query is scored.
I_ScoreHit ==
    /\ i_pc = "score" /\ i_hits # <<>>
    /\ \E new \in ScoreOutcomes[i_query, Head(i_hits)[2], i_store] :
          i_inferences' = i_inferences \o new
    /\ i_hits' = Tail(i_hits)
    /\ UNCHANGED <<i_pc, i_latest, i_single, i_store, i_homologs, i_queries,
                   i_query, i_ranked, i_inferred_profiles, i_csv, i_output,
                   i_pass, r_vars, t_vars, p_vars, s_vars, o_vars, c_vars>>

\* profile_inferrer.py:213-223: globalds fails for a domain of the hit's
\* target, the ValueError of line 223 ends the program.
I_ScoreFails ==
    /\ i_pc = "score" /\ i_hits # <<>>
    /\ Head(i_hits)[2] \in DOMAIN i_store
    /\ i_store[Head(i_hits)[2]][1] # <<>>
    /\ i_pc' = "raised"
    /\ UNCHANGED <<i_latest, i_single, i_store, i_homologs, i_queries, i_query,
                   i_hits, i_inferences, i_ranked, i_inferred_profiles, i_csv,
                   i_output, i_pass, r_vars, t_vars, p_vars, s_vars, o_vars, c_vars>>

\* profile_inferrer.py:233: the hits are exhausted, inferences is sorted.
I_Rank ==
    /\ i_pc = "score" /\ i_hits = <<>>
    /\ i_ranked' = RankInferences(i_inferences)
    /\ i_pc' = "write"
    /\ UNCHANGED <<i_latest, i_single, i_store, i_homologs, i_queries, i_query,
                   i_hits, i_inferences, i_inferred_profiles, i_csv, i_output,
                   i_pass, r_vars, t_vars, p_vars, s_vars, o_vars, c_vars>>

\* profile_inferrer.py:233-242: one sorted inference is skipped or written.
I_WriteRecord ==
    /\ i_pc = "write" /\ i_ranked # <<>>
    /\ LET inference == Head(i_ranked)
       IN  IF \/ LatestSkips(i_latest, inference, i_inferred_profiles)
              \/ SingleSkips(i_single, inference)
           THEN UNCHANGED <<i_csv, i_pass, i_inferred_profiles>>
           ELSE /\ i_csv' = File(Append(Rows(i_csv), CsvRow(inference)))
                /\ i_pass' = Append(i_pass, i_query)
                /\ i_inferred_profiles' =
                       i_inferred_profiles \cup {ProfileKey(inference)}
    /\ i_ranked' = Tail(i_ranked)
    /\ UNCHANGED <<i_pc, i_latest, i_single, i_store, i_homologs, i_queries,
                   i_query, i_hits, i_inferences, i_output,
                   r_vars, t_vars, p_vars, s_vars, o_vars, c_vars>>

\* profile_inferrer.py:244-254: the scratch file is copied to the output
\* destination and removed; the copy fails when no row was ever written.
I_Output ==
    /\ I_AtLoopHead /\ i_queries = <<>>
    /\ IF i_csv = Absent
       THEN i_pc' = "error" /\ UNCHANGED <<i_csv, i_output>>
       ELSE i_pc' = "done" /\ i_output' = i_csv /\ i_csv' = Absent
    /\ UNCHANGED <<i_latest, i_single, i_store, i_homologs, i_queries, i_query,
                   i_hits, i_inferences, i_ranked, i_inferred_profiles, i_pass,
                   r_vars, t_vars, p_vars, s_vars, o_vars, c_vars>>

\* ---- SpecScore ----

S_Idle ==
    /\ s_pc = "idle" /\ s_query = <<>> /\ s_hit = <<>> /\ s_store = <<>>
    /\ s_alis = <<>> /\ s_new = <<>>

S_Init ==
    /\ s_pc = "call"
    /\ s_query \in InputQueries
    /\ s_store \in DomainStores
    /\ \E target \in Targets : s_hit = HomologHit(s_query, target)
    /\ s_alis \in HitAlignments(s_query, s_hit, s_store)
    /\ s_new = <<>>

S_ScoreHit ==
    /\ s_pc = "call"
    /\ s_new' = ScoreHit(s_query, s_hit, s_store, s_alis)
    /\ s_pc' = "return"
    /\ UNCHANGED <<s_query, s_hit, s_store, s_alis, r_vars, t_vars, p_vars, i_vars, o_vars, c_vars>>

-----------------------------------------------------------------------------
(* Command line, profile_inferrer.py:19-64 and 116-127.                    *)
(*                                                                         *)
(* The command line is a list of <<flag, value>>; the flags that take part *)
(* in the checks of parse_options are modelled.                            *)

MaxArgs == 4    \* options on one command line

None == "None"

\* The options a command line can hold, with their values.
ArgTokens ==
    {<<"-f", "files">>, <<"-i", "input.fa">>, <<"-b", "blast/bin">>,
     <<"-m", "mmseqs/bin">>, <<"-t", "fungi">>, <<"-t", "bacteria">>,
     <<"--threads", "4">>}

\* profile_inferrer.py:28-41: the dest of each add_option; --threads is
\* declared with dest="taxon" (line 41).
Dest(flag) ==
    CASE flag = "-f" -> "files_dir"
      [] flag = "-i" -> "input_file"
      [] flag = "-b" -> "blast_dir"
      [] flag = "-m" -> "mmseqs_dir"
      [] flag = "-t" -> "taxon"
      [] flag = "--threads" -> "taxon"

\* The values of optparse before any option is read: no default is
\* declared for these dests.
Defaults ==
    [dest \in {"files_dir", "input_file", "blast_dir", "mmseqs_dir", "taxon"}
        |-> None]

\* profile_inferrer.py:49  parser.parse_args(): action="store" puts the
\* value at the dest, a later option overwriting an earlier one.
RECURSIVE parse_args(_, _)
parse_args(argv, options) ==
    IF argv = <<>> THEN options
    ELSE parse_args(Tail(argv),
                    [options EXCEPT ![Dest(Head(argv)[1])] = Head(argv)[2]])

Taxons == {"fungi", "insects", "nematodes", "plants", "vertebrates"}

\* profile_inferrer.py:49-64: parser.error prints the message and exits
\* with status 2.
parse_options(argv) ==
    LET options == parse_args(argv, Defaults)
    IN  IF options["files_dir"] = None \/ options["input_file"] = None
        THEN [error |-> "missing arguments", options |-> Defaults]
        ELSE IF options["blast_dir"] = None /\ options["mmseqs_dir"] = None
        THEN [error |-> "missing an homology searching method",
              options |-> Defaults]
        ELSE IF options["blast_dir"] # None /\ options["mmseqs_dir"] # None
        THEN [error |-> "specify ONLY one homology searching method",
              options |-> Defaults]
        ELSE IF options["taxon"] # None /\ options["taxon"] \notin Taxons
        THEN [error |-> "invalid taxon", options |-> Defaults]
        ELSE [error |-> "", options |-> options]

O_Idle ==
    /\ o_pc = "idle" /\ o_argv = <<>> /\ o_options = Defaults
    /\ o_error = "" /\ o_dummy_dir = FALSE

\* The script is started with a command line.
O_Init ==
    /\ o_pc = "start"
    /\ o_argv \in SeqsUpTo(ArgTokens, MaxArgs)
    /\ o_options = Defaults /\ o_error = "" /\ o_dummy_dir = FALSE

\* profile_inferrer.py:119  options = parse_options()
O_ParseOptions ==
    /\ o_pc = "start"
    /\ LET res == parse_options(o_argv)
       IN  /\ o_error' = res.error
           /\ o_options' = res.options
           /\ o_pc' = IF res.error # "" THEN "usage_error" ELSE "parsed"
    /\ UNCHANGED <<o_argv, o_dummy_dir,
                   r_vars, t_vars, p_vars, s_vars, i_vars, c_vars>>

\* profile_inferrer.py:121-127: the containers are created and the scratch
\* directory is made; the reading of files and the subprocesses follow.
O_StartUp ==
    /\ o_pc = "parsed"
    /\ o_dummy_dir' = TRUE
    /\ o_pc' = "running"
    /\ UNCHANGED <<o_argv, o_options, o_error,
                   r_vars, t_vars, p_vars, s_vars, i_vars, c_vars>>

-----------------------------------------------------------------------------
(* Scratch files of two runs started in the same working directory,        *)
(* get_files.py:365-455, 526-532 and profile_inferrer.py:126-180.          *)
(*                                                                         *)
(* A file is File(<<writer, content>>), writer the run that wrote it.  A   *)
(* name is a tuple of path components below the working directory.  An     *)
(* hmmscan table is abstracted to the sequence record it was computed      *)
(* from and holds one domain.                                              *)

MaxPid == 3    \* process ids range over 1..MaxPid

Runs == {1, 2}

\* get_files.py:375  seq_file = ".seq.fasta", relative to out_dir (line 372)
seq_file == <<".seq.fasta">>

\* get_files.py:436  out_file = ".out.txt", relative to out_dir
out_file == <<".out.txt">>

\* profile_inferrer.py:126  os.path.join(dummy_dir, "<script>.<pid>")
dummy_dir(pid) == <<"profile_inferrer.py", pid>>

\* profile_inferrer.py:128-129
query_mmseqs_db(pid)  == dummy_dir(pid) \o <<"query.db">>
query_mmseqs_ali(pid) == dummy_dir(pid) \o <<"query.ali">>

ScratchNames ==
    {seq_file, out_file}
        \cup {query_mmseqs_db(pid) : pid \in 1..MaxPid}
        \cup {query_mmseqs_ali(pid) : pid \in 1..MaxPid}

Writer(file) == Content(file)[1]

\* A run writes a file, replacing what is there.
WriteFile(fs, name, run, content) ==
    [fs EXCEPT ![name] = File(<<run, content>>)]

\* os.remove
RemoveFile(fs, name) == [fs EXCEPT ![name] = Absent]

\* The run replaces or removes a file another run has written.
Clobbers(fs, name, run) == fs[name] # Absent /\ Writer(fs[name]) # run

C_Idle ==
    /\ c_pc = <<>> /\ c_prog = <<>> /\ c_pid = <<>> /\ c_fs = <<>>
    /\ c_todo = <<>> /\ c_cur = <<>> /\ c_given = <<>> /\ c_clobbered = FALSE

\* Two runs have been started; the processes run at the same time, so
\* their process ids differ.  A get_files run is at line 385 with no Pfam
\* JSON file yet, a profile_inferrer run at line 164.
C_Init ==
    /\ c_prog \in [Runs -> {"get_files", "profile_inferrer"}]
    /\ c_pid \in {f \in [Runs -> 1..MaxPid] : f[1] # f[2]}
    /\ c_pc = [r \in Runs |->
                 IF c_prog[r] = "get_files" THEN "seq" ELSE "createdb"]
    /\ c_fs = [name \in ScratchNames |-> Absent]
    /\ c_todo = [r \in Runs |->
                   IF c_prog[r] = "get_files" THEN Uniaccs ELSE <<>>]
    /\ c_cur = [r \in Runs |-> ""]
    /\ c_given = [r \in Runs |-> {}]
    /\ c_clobbered = FALSE

\* get_files.py:385-393: the next uniacc, its sequence goes to seq_file.
C_MakeSeqFile(r) ==
    /\ c_pc[r] = "seq" /\ c_todo[r] # <<>>
    /\ c_cur' = [c_cur EXCEPT ![r] = Head(c_todo[r])]
    /\ c_todo' = [c_todo EXCEPT ![r] = Tail(@)]
    /\ c_fs' = WriteFile(c_fs, seq_file, r,
                         <<Head(c_todo[r]), UniprotSeq(Head(c_todo[r]))>>)
    /\ c_clobbered' = (c_clobbered \/ Clobbers(c_fs, seq_file, r))
    /\ c_pc' = [c_pc EXCEPT ![r] = "scan"]
    /\ UNCHANGED <<c_prog, c_pid, c_given,
                   r_vars, t_vars, p_vars, s_vars, i_vars, o_vars>>

\* get_files.py:438-439: hmmscan reads seq_file and writes its table to
\* out_file; with no seq_file it fails and writes nothing, and its exit
\* status is not looked at.
C_Hmmscan(r) ==
    /\ c_pc[r] = "scan"
    /\ IF c_fs[seq_file] = Absent
       THEN UNCHANGED <<c_fs, c_given, c_clobbered>>
       ELSE /\ c_given' = [c_given EXCEPT ![r] = @ \cup {c_fs[seq_file]}]
            /\ c_fs' = WriteFile(c_fs, out_file, r,
                                 <<"domtblout", Content(c_fs[seq_file])[2]>>)
            /\ c_clobbered' = (c_clobbered \/ Clobbers(c_fs, out_file, r))
    /\ c_pc' = [c_pc EXCEPT ![r] = "read"]
    /\ UNCHANGED <<c_prog, c_pid, c_todo, c_cur,
                   r_vars, t_vars, p_vars, s_vars, i_vars, o_vars>>

\* get_files.py:442-446: the table is read and out_file removed; a
\* missing out_file ends the run (SearchIO.parse raises).
C_ReadDomains(r) ==
    /\ c_pc[r] = "read"
    /\ IF c_fs[out_file] = Absent
       THEN /\ c_pc' = [c_pc EXCEPT ![r] = "error"]
            /\ UNCHANGED <<c_fs, c_given, c_clobbered>>
       ELSE /\ c_given' = [c_given EXCEPT ![r] = @ \cup {c_fs[out_file]}]
            /\ c_fs' = RemoveFile(c_fs, out_file)
            /\ c_clobbered' = (c_clobbered \/ Clobbers(c_fs, out_file, r))
            /\ c_pc' = [c_pc EXCEPT ![r] = "sub"]
    /\ UNCHANGED <<c_prog, c_pid, c_todo, c_cur,
                   r_vars, t_vars, p_vars, s_vars, i_vars, o_vars>>

\* get_files.py:396-404: the sub-sequence of the domain goes to seq_file.
C_MakeSubSeqFile(r) ==
    /\ c_pc[r] = "sub"
    /\ c_fs' = WriteFile(c_fs, seq_file, r,
                         <<c_cur[r], Slice(UniprotSeq(c_cur[r]), 0, 1)>>)
    /\ c_clobbered' = (c_clobbered \/ Clobbers(c_fs, seq_file, r))
    /\ c_pc' = [c_pc EXCEPT ![r] = "align"]
    /\ UNCHANGED <<c_prog, c_pid, c_todo, c_cur, c_given,
                   r_vars, t_vars, p_vars, s_vars, i_vars, o_vars>>

\* get_files.py:407, 529-530: hmmalign reads seq_file; with no seq_file it
\* exits non-zero and check_output raises.
C_Hmmalign(r) ==
    /\ c_pc[r] = "align"
    /\ IF c_fs[seq_file] = Absent
       THEN /\ c_pc' = [c_pc EXCEPT ![r] = "error"]
            /\ UNCHANGED c_given
       ELSE /\ c_given' = [c_given EXCEPT ![r] = @ \cup {c_fs[seq_file]}]
            /\ c_pc' = [c_pc EXCEPT ![r] = "seq"]
    /\ UNCHANGED <<c_prog, c_pid, c_fs, c_todo, c_cur, c_clobbered,
                   r_vars, t_vars, p_vars, s_vars, i_vars, o_vars>>

\* get_files.py:410-418: the Pfam JSON file is written and seq_file
\* removed if it exists.
C_Finish(r) ==
    /\ c_pc[r] = "seq" /\ c_todo[r] = <<>>
    /\ c_fs' = RemoveFile(c_fs, seq_file)
    /\ c_clobbered' = (c_clobbered \/ Clobbers(c_fs, seq_file, r))
    /\ c_pc' = [c_pc EXCEPT ![r] = "done"]
    /\ UNCHANGED <<c_prog, c_pid, c_todo, c_cur, c_given,
                   r_vars, t_vars, p_vars, s_vars, i_vars, o_vars>>

\* profile_inferrer.py:126-129, 164: the scratch directory is made and
\* mmseqs createdb writes the query database into it.
C_CreateDb(r) ==
    /\ c_pc[r] = "createdb"
    /\ c_fs' = WriteFile(c_fs, query_mmseqs_db(c_pid[r]), r, <<"db">>)
    /\ c_clobbered' =
          (c_clobbered \/ Clobbers(c_fs, query_mmseqs_db(c_pid[r]), r))
    /\ c_pc' = [c_pc EXCEPT ![r] = "search"]
    /\ UNCHANGED <<c_prog, c_pid, c_todo, c_cur, c_given,
                   r_vars, t_vars, p_vars, s_vars, i_vars, o_vars>>

\* profile_inferrer.py:178: mmseqs search reads the query database and
\* writes the alignment file.
C_Search(r) ==
    /\ c_pc[r] = "search"
    /\ c_given' = [c_given EXCEPT ![r] = @ \cup {c_fs[query_mmseqs_db(c_pid[r])]}]
    /\ c_fs' = WriteFile(c_fs, query_mmseqs_ali(c_pid[r]), r, <<"ali">>)
    /\ c_clobbered' =
          (c_clobbered \/ Clobbers(c_fs, query_mmseqs_ali(c_pid[r]), r))
    /\ c_pc' = [c_pc EXCEPT ![r] = "done"]
    /\ UNCHANGED <<c_prog, c_pid, c_todo, c_cur,
                   r_vars, t_vars, p_vars, s_vars, i_vars, o_vars>>

-----------------------------------------------------------------------------
(* SpecResolver                                                            *)

R_Idle == r_pc = "idle" /\ r_domains = <<>> /\ r_nov = <<>>

R_Init ==
    /\ r_pc = "call"
    /\ \E k \in 0..MaxHits : \E s \in [1..k -> HitShapes] : r_domains = WithIds(s)
    /\ r_nov = <<>>

R_Resolve ==
    /\ r_pc = "call"
    /\ r_nov' = _getNonOverlappingDomains(r_domains)
    /\ r_pc' = "return"
    /\ UNCHANGED <<r_domains, t_vars, p_vars, s_vars, i_vars, o_vars, c_vars>>

InitResolver == R_Init /\ T_Idle /\ P_Idle /\ S_Idle /\ I_Idle /\ O_Idle /\ C_Idle
NextResolver == R_Resolve
SpecResolver == InitResolver /\ [][NextResolver]_vars

-----------------------------------------------------------------------------
(* C1: the list returned by _getNonOverlappingDomains holds no two         *)
(* distinct elements a, b with a.start < b.end and a.end > b.start.        *)
C1_NoOverlapInOutput ==
    r_pc = "return" =>
        \A i, j \in 1..Len(r_nov) :
            i # j => ~(DomStart(r_nov[i]) < DomEnd(r_nov[j])
                       /\ DomEnd(r_nov[i]) > DomStart(r_nov[j]))

\* A hit was rejected and two hits were accepted.
C1_Witness ==
    /\ r_pc = "return"
    /\ Len(r_nov) >= 2
    /\ Len(r_nov) < Len(r_domains)

(* C2: the returned subset is maximal: every input hit that is not in the  *)
(* output overlaps an output hit whose e-value is less than or equal to    *)
(* its own.                                                                *)
C2_Maximal ==
    r_pc = "return" =>
        \A a \in Range(r_domains) \ Range(r_nov) :
            \E b \in Range(r_nov) :
                /\ DomStart(a) < DomEnd(b) /\ DomEnd(a) > DomStart(b)
                /\ DomE(b) <= DomE(a)

\* A hit was rejected that overlaps a second rejected hit: only accepted
\* hits count for the exclusion.
C2_Witness ==
    /\ r_pc = "return"
    /\ \E a, c \in Range(r_domains) \ Range(r_nov) :
          a # c /\ DomainsOverlap(a, c) /\ DomE(a) < DomE(c)

(* C14: _getNonOverlappingDomains is idempotent: applied to its own        *)
(* result it returns that result, the same elements in the same order.     *)
C14_Idempotent ==
    r_pc = "return" => _getNonOverlappingDomains(r_nov) = r_nov

\* A hit was rejected and the result holds two hits in another order than
\* the input held them.
C14_Witness ==
    /\ r_pc = "return"
    /\ Len(r_nov) < Len(r_domains)
    /\ \E j, k \in 1..Len(r_nov) :
          j < k /\ DomId(r_nov[j]) > DomId(r_nov[k])

\* The list domains with its elements in the order f, a permutation of
\* its indices.
Permuted(domains, f) == [i \in 1..Len(domains) |-> domains[f[i]]]

(* C16: the result of _getNonOverlappingDomains does not depend on the     *)
(* order of its input: every permutation of the input list gives the same  *)
(* set of hits, and among overlapping hits of equal e-value the one with   *)
(* the smaller start coordinate is the one that is kept.                   *)
C16_InputOrderIndependent ==
    r_pc = "return" =>
        /\ \A f \in Permutations(1..Len(r_domains)) :
              Range(_getNonOverlappingDomains(Permuted(r_domains, f)))
                 = Range(r_nov)
        /\ \A a \in Range(r_nov) : \A b \in Range(r_domains) :
              (DomE(a) = DomE(b) /\ DomainsOverlap(a, b))
                 => DomStart(a) <= DomStart(b)

-----------------------------------------------------------------------------
(* SpecRost                                                                *)

InitRost == T_Init /\ R_Idle /\ P_Idle /\ S_Idle /\ I_Idle /\ O_Idle /\ C_Idle
NextRost == T_Threshold
SpecRost == InitRost /\ [][NextRost]_vars

(* C9: for every strictness n >= 0 and all lengths 1 <= L1 <= L2,          *)
(* get_Rost_ID_threshold(L2, n) <= get_Rost_ID_threshold(L1, n): the       *)
(* threshold never increases as L grows.                                   *)
C9_NonIncreasing ==
    (t_pc = "return" /\ t_L[1] <= t_L[2]) => t_thr[2] <= t_thr[1]

-----------------------------------------------------------------------------
(* SpecPfam                                                                *)

InitPfam == P_Init /\ R_Idle /\ T_Idle /\ S_Idle /\ I_Idle /\ O_Idle /\ C_Idle
NextPfam == P_Skip \/ P_Begin \/ P_NextSeq \/ P_Align \/ P_Write
SpecPfam == InitPfam /\ [][NextPfam]_vars

\* The Pfam JSON file was written by this run.
P_Written == p_file \notin {Absent, Earlier}

(* C10: if hmmalign exits non-zero for any domain of any sequence,         *)
(* _get_Pfam_alignments ends with an error and the taxon's domain file is  *)
(* not written; a file that exists holds a record for every sequence and   *)
(* for every domain hmmScan delivered for it.                              *)
C10_NoPartialFile ==
    /\ p_failed => (p_pc = "error" /\ p_file = Absent)
    /\ P_Written =>
          /\ DOMAIN Content(p_file) = Range(Uniaccs)
          /\ \A u \in Range(Uniaccs) :
                Len(Content(p_file)[u]) = Len(p_scanned[u])

\* hmmalign failed after records had already been collected in memory.
C10_Witness ==
    /\ p_failed /\ p_pc = "error"
    /\ \E u \in DOMAIN p_pfams : p_pfams[u] # <<>>

\* hmmscan has run for the current sequence and left a table.
P_TableLeft == p_out \notin {NotRun, Absent} /\ p_cur \in DOMAIN p_scanned

(* C11: if hmmscan leaves no output file, hmmScan yields zero domains and  *)
(* raises no error: the sequence has a record with an empty domain list    *)
(* and the run has not stopped with an error.                              *)
C11_NoOutputFileZeroDomains ==
    p_out = Absent =>
        /\ p_pc # "error" /\ p_err = ""
        /\ p_cur \in DOMAIN p_scanned /\ p_scanned[p_cur] = <<>>
        /\ p_cur \in DOMAIN p_pfams /\ p_pfams[p_cur] = <<>>

(* C15: with non-overlap requested, as _get_Pfam_alignments requests it,   *)
(* the domains hmmScan delivers for a sequence are in the resolver's       *)
(* acceptance order, ascending e-value; without the request they are       *)
(* delivered in ascending order of the start coordinate.                   *)
C15_DeliveredInAcceptanceOrder ==
    P_TableLeft =>
        /\ p_scanned[p_cur]
              = _getNonOverlappingDomains(_readDomainsTab(p_out).domains)
        /\ \A j, k \in 1..Len(p_scanned[p_cur]) :
              j < k => DomE(p_scanned[p_cur][j]) <= DomE(p_scanned[p_cur][k])
        /\ LET plain == hmmScan(p_out, FALSE).yields
           IN  \A j, k \in 1..Len(plain) :
                  j < k => DomStart(plain[j]) <= DomStart(plain[k])

-----------------------------------------------------------------------------
(* SpecScore                                                               *)

InitScore == S_Init /\ R_Idle /\ T_Idle /\ P_Idle /\ I_Idle /\ O_Idle /\ C_Idle
NextScore == S_ScoreHit
SpecScore == InitScore /\ [][NextScore]_vars

\* The domains the store holds for the target of the hit.
S_Domains == s_store[s_hit[2]][1]

\* <<identities, len(domain)>> of every alignment returned, and the floor 0.
S_Ratios ==
    {<<0, 1>>} \cup
    UNION {{<<Cardinality({i \in 1..Len(s_alis[d][a][1]) :
                             s_alis[d][a][1][i] = s_alis[d][a][2][i]}),
              Len(S_Domains[d])>> : a \in 1..Len(s_alis[d])} :
           d \in 1..Len(S_Domains)}

\* The largest of them, as a pair <<numerator, denominator>>.
S_Max == CHOOSE m \in S_Ratios : \A r \in S_Ratios : r[1] * m[2] <= m[1] * r[2]

C8_NoDomainsNoRecord ==
    (/\ s_pc = "return"
     /\ (s_hit[2] \notin DOMAIN s_store \/ s_store[s_hit[2]][1] = <<>>))
    => s_new = <<>>

-----------------------------------------------------------------------------
(* SpecInfer                                                               *)

InitInfer == I_Init /\ R_Idle /\ T_Idle /\ P_Idle /\ S_Idle /\ O_Idle /\ C_Idle
NextInfer ==
    I_NextQuery \/ I_ScoreHit \/ I_ScoreFails \/ I_Rank \/ I_WriteRecord \/ I_Output
SpecInfer == InitInfer /\ [][NextInfer]_vars

\* The rows written so far, in the scratch file or at the destination.
I_Written == IF i_pc = "done" THEN Rows(i_output) ELSE Rows(i_csv)

\* The inference of the k-th row written.
I_RowInf(k) == I_Written[k][2]

\* (max_identity, gene_name) of a is >= that of b, lexicographically.
I_KeyGeq(a, b) ==
    \/ b[7][1] * a[7][2] < a[7][1] * b[7][2]
    \/ (b[7][1] * a[7][2] = a[7][1] * b[7][2] /\ ~StrLess(a[2], b[2]))

I_MatrixBase(inference) == SubSeq(inference[3], 1, 6)

(* C4: in latest mode a ranked record of a query is written iff no         *)
(* earlier-ranked written record of that query has the same first 6        *)
(* characters of profile_matrix_id, whatever the gene names are.           *)
C4_LatestPerMatrixBase ==
    [][(i_pc = "write" /\ i_ranked # <<>> /\ i_latest /\ ~i_single)
        => ((Rows(i_csv') # Rows(i_csv))
             <=> ~\E k \in 1..Len(Rows(i_csv)) :
                    /\ i_pass[k] = i_query
                    /\ Rows(i_csv)[k][2][1] = Head(i_ranked)[1]
                    /\ I_MatrixBase(Rows(i_csv)[k][2])
                          = I_MatrixBase(Head(i_ranked)))]_vars

(* C5: in single mode no row is ever written whose query accession         *)
(* contains "::", whether or not latest mode is on, and a record skipped   *)
(* for this reason is not added to the latest-mode seen-set.               *)
C5_SingleMode ==
    /\ [](i_single =>
            \A k \in 1..Len(I_Written) :
                ~\E p \in 1..Len(I_RowInf(k)[1]) - 1 :
                    I_RowInf(k)[1][p] = ":" /\ I_RowInf(k)[1][p + 1] = ":")
    /\ [][(/\ i_pc = "write" /\ i_ranked # <<>> /\ i_single
           /\ \E p \in 1..Len(Head(i_ranked)[1]) - 1 :
                 Head(i_ranked)[1][p] = ":" /\ Head(i_ranked)[1][p + 1] = ":")
          => (i_inferred_profiles' = i_inferred_profiles /\ i_csv' = i_csv)]_vars

\* Single and latest mode: the iteration of the heterodimer query Q2 has
\* ended, Q2 has accepted records, and rows of Q1 were written.
C5_Witness ==
    /\ i_single /\ i_latest
    /\ i_pc = "write" /\ i_ranked = <<>> /\ i_query = Q2
    /\ \E k \in 1..Len(i_inferences) : i_inferences[k][1] = Q2
    /\ I_Written # <<>>

(* C6: the output holds exactly one row per accepted record that survives  *)
(* the mode filters: a record accepted while one query is processed is not *)
(* written again while a later query is processed, and the rows written    *)
(* during a query's pass are records of that query only.                   *)
C6_OneRowPerRecord ==
    /\ \A k \in 1..Len(Rows(i_csv)) : Rows(i_csv)[k][2][1] = i_pass[k]
    /\ \A k \in 1..Len(I_Written) :
          Cardinality({j \in 1..Len(I_Written) : I_RowInf(j) = I_RowInf(k)})
             <= Cardinality({j \in 1..Len(i_inferences) :
                                i_inferences[j] = I_RowInf(k)})

(* C12: if processing fails while a query is scored, the rows written      *)
(* during the passes of the queries before it are present and unchanged    *)
(* in the output destination when the program stops.                       *)
C12_PriorRowsSurviveFailure ==
    i_pc = "raised" =>
        \A k \in 1..Len(i_pass) :
            i_pass[k] # i_query =>
                /\ k <= Len(Rows(i_output))
                /\ Rows(i_output)[k] = Rows(i_csv)[k]

\* The query accession of an inference holds the token "::".
I_IsHeterodimer(inference) ==
    \E p \in 1..Len(inference[1]) - 1 :
        inference[1][p] = ":" /\ inference[1][p + 1] = ":"

\* A row of the query q is written whose inference has the matrix base id
\* or the seen-set key of the inference.
I_OwnRowSeen(q, inference) ==
    \E k \in 1..Len(Rows(i_csv)) :
        /\ Rows(i_csv)[k][2][1] = q
        /\ \/ I_MatrixBase(Rows(i_csv)[k][2]) = I_MatrixBase(inference)
           \/ Prefix(Rows(i_csv)[k][2][2], 6) = Prefix(inference[2], 6)

(* C17: the latest-mode seen-set is scoped per query: a record of the      *)
(* query being processed is skipped in latest mode only because of a row   *)
(* written for that same query; rows written for other queries never make  *)
(* it be skipped.                                                          *)
C17_SeenSetPerQuery ==
    [][(/\ i_pc = "write" /\ i_ranked # <<>> /\ i_latest
        /\ Head(i_ranked)[1] = i_query
        /\ ~(i_single /\ I_IsHeterodimer(Head(i_ranked)))
        /\ ~I_OwnRowSeen(i_query, Head(i_ranked)))
       => Rows(i_csv') # Rows(i_csv)]_vars

-----------------------------------------------------------------------------
(* SpecOptions                                                             *)

InitOptions == O_Init /\ R_Idle /\ T_Idle /\ P_Idle /\ S_Idle /\ I_Idle /\ C_Idle
NextOptions == O_ParseOptions \/ O_StartUp
SpecOptions == InitOptions /\ [][NextOptions]_vars

\* The flag is on the command line.
O_Given(flag) == \E k \in 1..Len(o_argv) : o_argv[k][1] = flag

\* The files directory or the input file is missing, or neither backend
\* or both backends are given.
O_BadUsage ==
    \/ ~O_Given("-f") \/ ~O_Given("-i")
    \/ (O_Given("-b") <=> O_Given("-m"))

(* C13: parse_options ends in a usage error, before the scratch directory  *)
(* is created or anything else is done, whenever the files directory or    *)
(* the input file is missing or the number of backends given is not one;   *)
(* with both required arguments and exactly one backend it returns the     *)
(* options without error.                                                  *)
C13_UsageErrors ==
    o_pc \notin {"idle", "start"} =>
        /\ O_BadUsage => (o_pc = "usage_error" /\ ~o_dummy_dir)
        /\ ~O_BadUsage => (o_pc # "usage_error" /\ o_error = "")

-----------------------------------------------------------------------------
(* SpecScratch                                                             *)

InitScratch == C_Init /\ R_Idle /\ T_Idle /\ P_Idle /\ S_Idle /\ I_Idle /\ O_Idle
NextScratch ==
    \/ \E r \in Runs : C_MakeSeqFile(r)
    \/ \E r \in Runs : C_Hmmscan(r)
    \/ \E r \in Runs : C_ReadDomains(r)
    \/ \E r \in Runs : C_MakeSubSeqFile(r)
    \/ \E r \in Runs : C_Hmmalign(r)
    \/ \E r \in Runs : C_Finish(r)
    \/ \E r \in Runs : C_CreateDb(r)
    \/ \E r \in Runs : C_Search(r)
SpecScratch == InitScratch /\ [][NextScratch]_vars

(* C18: two runs at work in the same directory at the same time never     *)
(* read and never overwrite or remove each other's scratch files: every    *)
(* file a tool of a run is given (the sequence file of hmmscan and         *)
(* hmmalign, the hmmscan table, the query database) was written by that    *)
(* run, so no run scans or aligns the other run's sequence.                *)
C18_ScratchFilesPrivate ==
    /\ ~c_clobbered
    /\ \A r \in DOMAIN c_given : \A file \in c_given[r] : Writer(file) = r

=============================================================================
